---------------------------- MODULE Spec2Model ----------------------------
(***************************************************************************)
(* Model of the vibelife simulation core (src/simulation/rust/src/lib.rs). *)
(*                                                                         *)
(* Numbers.  Every f32 of the program is a fixed-point integer counting    *)
(* thousandths (Scale): 0.5 is 500, an energy of 100.0 is 100000.  Each    *)
(* f32 operation is one rounded fixed-point operation, applied in the      *)
(* order the source applies it; the rounding to a thousandth stands for    *)
(* the rounding of f32.  The action counts kept in action_weights are      *)
(* whole f32 values (1.0, 2.0, ...) and are plain integers here.           *)
(*                                                                         *)
(* Random numbers.  rand's SmallRng is a deterministic generator whose     *)
(* algorithm is outside this repository.  It is modelled as a generator    *)
(* with RngMod states: Gen reads the draw off the state and steps it.      *)
(* The state the generator takes from its seed is left open (any state).   *)
(***************************************************************************)
EXTENDS Integers, Sequences, FiniteSets, TLC

(***************************************************************************)
(* Bounds of the model.                                                    *)
(***************************************************************************)
\* create_initial_organism calls per behaviour
MaxInitial == 2
\* simulate_generation passes per behaviour (those of fast_forward included)
MaxPasses == 3
\* largest argument of fast_forward
MaxFF == 2
\* record_action calls on the stand-alone organism
MaxCalls == 23
\* of which calls with a label other than the first of ActionLabels
MaxRare == 2
\* move_organism and process_photosynthesis calls on the stand-alone organism
MaxMethodCalls == 2
\* states (and distinct draws) of the generator
RngMod == 8

(***************************************************************************)
(* Fixed-point arithmetic.                                                 *)
(***************************************************************************)
Scale == 1000

\* n / d rounded to the nearest integer, halves upwards (d > 0)
RDiv(n, d) == (2 * n + d) \div (2 * d)

\* a * b on f32; a is split into its whole and fractional part so that the
\* intermediate product stays small: the result is RDiv(a * b, Scale)
FMul(a, b) == (a \div Scale) * b + RDiv((a % Scale) * b, Scale)

\* a / b on f32
FDiv(a, b) == RDiv(a * Scale, b)

\* `x as u64` of a non-negative f64: the fraction is dropped
AsU64(x) == x \div Scale

\* `n as f32` of a length
AsF32(n) == n * Scale

\* a max that keeps its receiver
FMaxReceiver(a, b) == a

\* f32::max
FMax(a, b) == IF a >= b THEN a ELSE b

\* a clamp without its upper bound
clampBelowOnly(value, min, max) == IF value < min THEN min ELSE value

\* lib.rs clamp
clamp(value, min, max) ==
    IF value < min THEN min
    ELSE IF value > max THEN max
    ELSE value

\* std::f32::consts::PI
PI == 3142

\* cos and sin, read off a table of the eight compass directions nearest
\* to the angle
CosTable == <<1000, 707, 0, -707, -1000, -707, 0, 707>>
SinTable == <<0, 707, 1000, 707, 0, -707, -1000, -707>>
Octant(angle) == RDiv(angle * 8, 2 * PI) % 8
Cos(angle) == CosTable[Octant(angle) + 1]
Sin(angle) == SinTable[Octant(angle) + 1]

(***************************************************************************)
(* The generator: rng.gen::<f32>() returns a value in [0,1) and steps the  *)
(* state.                                                                  *)
(***************************************************************************)
RngStates == 0 .. (RngMod - 1)
RngValue(s) == (s * Scale) \div RngMod
RngStep(s) == (5 * s + 3) % RngMod
Gen(s) == [value |-> RngValue(s), rng |-> RngStep(s)]

(***************************************************************************)
(* OrganismTraits.                                                         *)
(***************************************************************************)
GeneNames == <<"motility", "photosynthesis", "predation", "defense",
               "sensory", "reproduction", "metabolism">>

\* a constructor that stores reproduction and sensory in each other's place
TraitsNewSwapped(motility, photosynthesis, predation, defense, sensory, reproduction, metabolism) ==
    [motility       |-> clamp(motility, 0, Scale),
     photosynthesis |-> clamp(photosynthesis, 0, Scale),
     predation      |-> clamp(predation, 0, Scale),
     defense        |-> clamp(defense, 0, Scale),
     sensory        |-> clamp(reproduction, 0, Scale),
     reproduction   |-> clamp(sensory, 0, Scale),
     metabolism     |-> clamp(metabolism, 0, Scale)]

\* OrganismTraits::new
TraitsNew(motility, photosynthesis, predation, defense, sensory, reproduction, metabolism) ==
    [motility       |-> clamp(motility, 0, Scale),
     photosynthesis |-> clamp(photosynthesis, 0, Scale),
     predation      |-> clamp(predation, 0, Scale),
     defense        |-> clamp(defense, 0, Scale),
     sensory        |-> clamp(sensory, 0, Scale),
     reproduction   |-> clamp(reproduction, 0, Scale),
     metabolism     |-> clamp(metabolism, 0, Scale)]

\* action_weights.get(name).unwrap_or(&0.0)
GetOr0(action_weights, name) ==
    IF name \in DOMAIN action_weights THEN action_weights[name] ELSE 0

\* mutate_trait: two draws, the second one scales the bias
mutate_trait(value, s, action_weight) ==
    LET g1 == Gen(s)
        mutation_amount == FMul(g1.value - 500, 100)
        g2 == Gen(g1.rng)
        biased_amount == mutation_amount + FMul(FMul(action_weight, 50), g2.value)
    IN [value |-> clamp(value + biased_amount, 0, Scale), rng |-> g2.rng]

\* OrganismTraits::mutate: the seven genes in declaration order, each
\* looked up in action_weights under its own name
RECURSIVE MutateFrom(_, _, _, _)
MutateFrom(i, traits, s, action_weights) ==
    IF i > Len(GeneNames) THEN [traits |-> traits, rng |-> s]
    ELSE LET name == GeneNames[i]
             m == mutate_trait(traits[name], s, GetOr0(action_weights, name))
         IN MutateFrom(i + 1, [traits EXCEPT ![name] = m.value], m.rng,
                       action_weights)

mutate(traits, s, action_weights) == MutateFrom(1, traits, s, action_weights)

(***************************************************************************)
(* Organism.                                                               *)
(***************************************************************************)
\* Option<String>: None is the empty tuple, Some(id) is <<id>>
None == << >>
Some(x) == <<x>>

\* Position::new
PositionNew(x, y, z) == [x |-> x, y |-> y, z |-> z]

\* HashMap::new
EmptyMap == [a \in {} |-> 0]

\* a constructor that drops the lineage it is given
OrganismNewWithoutLineage(id, position, size, traits, energy, generation, parent_id) ==
    [id             |-> id,
     position       |-> position,
     size           |-> FMax(size, 100),
     traits         |-> traits,
     energy         |-> energy,
     age            |-> 0,
     generation     |-> 0,
     parent_id      |-> None,
     action_records |-> << >>,
     action_weights |-> [a \in {} |-> 0]]

\* a constructor whose organisms start at age 1
OrganismNewAgedOne(id, position, size, traits, energy, generation, parent_id) ==
    [id             |-> id,
     position       |-> position,
     size           |-> FMax(size, 100),
     traits         |-> traits,
     energy         |-> energy,
     age            |-> 1,
     generation     |-> generation,
     parent_id      |-> parent_id,
     action_records |-> << >>,
     action_weights |-> [a \in {} |-> 0]]

\* Organism::new
OrganismNew(id, position, size, traits, energy, generation, parent_id) ==
    [id             |-> id,
     position       |-> position,
     size           |-> FMax(size, 100),
     traits         |-> traits,
     energy         |-> energy,
     age            |-> 0,
     generation     |-> generation,
     parent_id      |-> parent_id,
     action_records |-> << >>,
     action_weights |-> EmptyMap]

\* the history keeps at most this many labels
HistoryCap == 20

\* entry(action).or_insert(0.0) += 1.0
Increment(weights, action) ==
    IF action \in DOMAIN weights
    THEN [weights EXCEPT ![action] = @ + 1]
    ELSE [a \in DOMAIN weights \cup {action} |->
             IF a = action THEN 1 ELSE weights[a]]

\* an eviction that decrements but never drops the entry
DecrementKeepingEntry(weights, removed) ==
    IF removed \in DOMAIN weights
    THEN [weights EXCEPT ![removed] = @ - 1]
    ELSE weights

\* the eviction branch: decrement the removed label, drop it at <= 0
Decrement(weights, removed) ==
    IF removed \in DOMAIN weights
    THEN IF weights[removed] - 1 <= 0
         THEN [a \in DOMAIN weights \ {removed} |-> weights[a]]
         ELSE [weights EXCEPT ![removed] = @ - 1]
    ELSE weights

\* Organism::record_action
record_action(o, action) ==
    LET pushed == Append(o.action_records, action)
        counted == Increment(o.action_weights, action)
    IN IF Len(pushed) > HistoryCap
       THEN [o EXCEPT !.action_records = Tail(pushed),
                      !.action_weights = Decrement(counted, Head(pushed))]
       ELSE [o EXCEPT !.action_records = pushed,
                      !.action_weights = counted]

\* a move_organism that draws the angle before it looks at motility
move_organism_draws_first(o, s) ==
    LET move_distance == FMul(FMul(o.traits.motility, FDiv(Scale, o.size)), 500)
        g == Gen(s)
        angle == FMul(FMul(g.value, PI), 2000)
        energy_cost == FMul(FMul(move_distance, o.size), 2000)
        moved == [o EXCEPT
                    !.position.x = @ + FMul(Cos(angle), move_distance),
                    !.position.z = @ + FMul(Sin(angle), move_distance),
                    !.energy = @ - energy_cost]
    IN IF o.traits.motility < 50 THEN [org |-> o, rng |-> g.rng]
       ELSE [org |-> record_action(moved, "moved"), rng |-> g.rng]

\* Organism::move_organism: the organism and the generator after the call
move_organism(o, s) ==
    IF o.traits.motility < 50 THEN [org |-> o, rng |-> s]
    ELSE LET move_distance == FMul(FMul(o.traits.motility, FDiv(Scale, o.size)), 500)
             g == Gen(s)
             angle == FMul(FMul(g.value, PI), 2000)
             energy_cost == FMul(FMul(move_distance, o.size), 2000)
             moved == [o EXCEPT
                         !.position.x = @ + FMul(Cos(angle), move_distance),
                         !.position.z = @ + FMul(Sin(angle), move_distance),
                         !.energy = @ - energy_cost]
         IN [org |-> record_action(moved, "moved"), rng |-> g.rng]

\* a process_photosynthesis whose threshold also stops a gene of exactly 0.05
process_photosynthesis_at_most(o, light_level) ==
    IF o.traits.photosynthesis <= 50 THEN o
    ELSE LET energy_gain ==
                 FMul(FMul(FMul(o.traits.photosynthesis, light_level), o.size), 5000)
         IN record_action([o EXCEPT !.energy = @ + energy_gain], "photosynthesis")

\* a process_photosynthesis whose gain leaves the light out
process_photosynthesis_unlit(o, light_level) ==
    IF o.traits.photosynthesis < 50 THEN o
    ELSE LET energy_gain == FMul(FMul(o.traits.photosynthesis, o.size), 5000)
         IN record_action([o EXCEPT !.energy = @ + energy_gain], "photosynthesis")

\* Organism::process_photosynthesis
process_photosynthesis(o, light_level) ==
    IF o.traits.photosynthesis < 50 THEN o
    ELSE LET energy_gain ==
                 FMul(FMul(FMul(o.traits.photosynthesis, light_level), o.size), 5000)
         IN record_action([o EXCEPT !.energy = @ + energy_gain], "photosynthesis")

\* a can_reproduce that accepts either condition alone
can_reproduce_either(o) == o.energy >= 50000 \/ o.traits.reproduction >= 200

\* Organism::can_reproduce
can_reproduce(o) == o.energy >= 50000 /\ o.traits.reproduction >= 200

\* a reproduction_chance capped at 0.5
reproduction_chance_capped(o) ==
    LET chance == FMul(o.traits.reproduction, RDiv(o.energy, 200))
    IN IF chance > 500 THEN 500 ELSE chance

\* Organism::reproduction_chance
\* (energy / 200.0 is FDiv(energy, 200000), which is RDiv(energy, 200))
reproduction_chance(o) == FMul(o.traits.reproduction, RDiv(o.energy, 200))

\* the serialized organism: action_records and action_weights are skipped,
\* parent_id is skipped when it is None
Snapshot(o) ==
    LET base == [id |-> o.id, position |-> o.position, size |-> o.size,
                 traits |-> o.traits, energy |-> o.energy, age |-> o.age,
                 generation |-> o.generation]
    IN IF o.parent_id = None THEN base
       ELSE [f \in DOMAIN base \cup {"parent_id"} |->
                IF f = "parent_id" THEN o.parent_id[1] ELSE base[f]]

SnapshotAll(orgs) == [i \in 1 .. Len(orgs) |-> Snapshot(orgs[i])]

(***************************************************************************)
(* Simulation: state.                                                      *)
(***************************************************************************)
VARIABLES
    organisms,     \* Simulation.organisms
    environment,   \* Simulation.environment
    rng,           \* Simulation.rng
    next_id,       \* Simulation.next_id
    seed,          \* the seed Simulation::new handed to the generator
    returned,      \* the value the last call returned to the host
    last_call,     \* history: the last call and its argument
    before,        \* history: the simulation as the last call found it
    created,       \* history: one record per id allocated, in order
    pass_log,      \* history: what the last pass saw of each organism
    passes,        \* history: simulate_generation passes so far
    org,           \* a stand-alone Organism held by the host
    recorded       \* history: every call the host made on org (the label,
                   \* for record_action; the method, for the others)

vars == <<organisms, environment, rng, next_id, seed, returned, last_call, before,
          created, pass_log, passes, org, recorded>>

\* format!("organism-{}", n)
FormatId(n) == "organism-" \o ToString(n)

\* Environment::new
EnvironmentNew(temperature, light_level, moisture, organic, minerals, light) ==
    [temperature |-> clamp(temperature, 0, Scale),
     light_level |-> clamp(light_level, 0, Scale),
     moisture    |-> clamp(moisture, 0, Scale),
     resources   |-> [organic |-> organic, minerals |-> minerals, light |-> light]]

\* Math::random() as u64 * 9999999.0 as u64: `as` binds tighter than `*`
SeedFromHost(random) == AsU64(random) * 9999999

(***************************************************************************)
(* simulate_generation, one organism of the loop.  st is the state the     *)
(* loop threads: next_organisms, rng, next_id, the two histories and the   *)
(* number of the pass.                                                     *)
(***************************************************************************)
\* a counter that is read but not advanced
NextIdKept(n) == n

\* self.next_id += 1
NextIdAfter(n) == n + 1

\* organism.energy * 0.3, the energy handed to the offspring
OffspringEnergy(energy) == FMul(energy, 300)

\* a parent that keeps all of its energy
ParentEnergyKept(energy) == energy

\* organism.energy *= 0.7
ParentEnergy(energy) == FMul(energy, 700)

\* a death check that lets an energy of exactly 0 through
IsDeadBelowZero(o) == o.energy < 0

\* the three `if organism.energy <= 0.0 { continue; }`
IsDead(o) == o.energy <= 0

\* the loop at "Create map of action weights"
RECURSIVE CountActions(_, _)
CountActions(records, weights) ==
    IF records = << >> THEN weights
    ELSE CountActions(Tail(records), Increment(weights, Head(records)))

\* "Normalize weights"
NormalizedWeights(records) ==
    LET counts == CountActions(records, EmptyMap)
        record_count == AsF32(Len(records))
    IN IF record_count > 0
       THEN [a \in DOMAIN counts |-> FDiv(AsF32(counts[a]), record_count)]
       ELSE counts

\* `continue`: nothing is pushed; the generator keeps what was drawn
Excluded(st, o, s, seen, where) ==
    [st EXCEPT !.rng = s,
               !.pass_log = Append(@, [id |-> o.id, seen |-> seen, died |-> where,
                                       could |-> FALSE, check_energy |-> 0,
                                       draw |-> None, history |-> << >>,
                                       action_weights |-> EmptyMap,
                                       size_factor |-> 0,
                                       offspring |-> None])]

\* the organism is pushed without offspring; draw is what the reproduction
\* check drew, if it drew
Survived(st, o, s, seen, could, draw) ==
    [st EXCEPT !.next_organisms = Append(@, o),
               !.rng = s,
               !.pass_log = Append(@, [id |-> o.id, seen |-> seen, died |-> "no",
                                       could |-> could, check_energy |-> o.energy,
                                       draw |-> draw, history |-> o.action_records,
                                       action_weights |-> EmptyMap,
                                       size_factor |-> 0,
                                       offspring |-> None])]

\* a push of the parent before its offspring
PushParentFirst(next_organisms, offspring, parent) ==
    Append(Append(next_organisms, parent), offspring)

\* next_organisms.push(offspring); ...; next_organisms.push(organism)
PushOffspringFirst(next_organisms, offspring, parent) ==
    Append(Append(next_organisms, offspring), parent)

\* the body of `if organism.can_reproduce() && ... { ... }` and the push
\* of the parent
Reproduced(st, o, s, seen, could, draw) ==
    LET offspring_id == FormatId(st.next_id)
        action_weights == NormalizedWeights(o.action_records)
        mutated == mutate(o.traits, s, action_weights)
        gx == Gen(mutated.rng)
        gz == Gen(gx.rng)
        gs == Gen(gz.rng)
        size_factor == 800 + FMul(gs.value, 400)
        offspring == OrganismNew(
            offspring_id,
            PositionNew(o.position.x + FMul(gx.value - 500, 500),
                        o.position.y,
                        o.position.z + FMul(gz.value - 500, 500)),
            FMul(o.size, size_factor),
            mutated.traits,
            OffspringEnergy(o.energy),
            o.generation + 1,
            Some(o.id))
        parent == record_action([o EXCEPT !.energy = ParentEnergy(@)], "reproduced")
    IN [st EXCEPT
          !.next_organisms = PushOffspringFirst(@, offspring, parent),
          !.rng = gs.rng,
          !.next_id = NextIdAfter(@),
          !.created = Append(@, [id |-> offspring_id, kind |-> "offspring",
                                 generation |-> offspring.generation,
                                 parent_id |-> offspring.parent_id,
                                 spawner |-> o.id,
                                 spawner_generation |-> o.generation,
                                 input |-> << >>,
                                 counter |-> st.next_id,
                                 born |-> st.pass]),
          !.pass_log = Append(@, [id |-> o.id, seen |-> seen, died |-> "no",
                                  could |-> could, check_energy |-> o.energy,
                                  draw |-> draw, history |-> o.action_records,
                                  action_weights |-> action_weights,
                                  size_factor |-> size_factor,
                                  offspring |-> Some(offspring_id)])]

\* "Check for reproduction": the draw is taken only when can_reproduce()
\* holds (&& does not evaluate its right side otherwise)
ReproductionStep(st, o, s, seen) ==
    LET could == o.energy >= 50000 /\ o.traits.reproduction >= 200
        g == Gen(s)
    IN IF can_reproduce(o)
       THEN IF g.value < reproduction_chance(o)
            THEN Reproduced(st, o, g.rng, seen, could, Some(g.value))
            ELSE Survived(st, o, g.rng, seen, could, Some(g.value))
       ELSE Survived(st, o, s, seen, could, None)

\* the loop body; `seen` lists the energies the checkpoints read
ProcessOrganism(st, o, light_level) ==
    IF IsDead(o) THEN Excluded(st, o, st.rng, <<o.energy>>, "start")
    ELSE
      LET aged == [o EXCEPT !.age = @ + 1]
          fed == [aged EXCEPT !.energy = @ - FMul(aged.traits.metabolism, aged.size)]
      IN IF IsDead(fed)
         THEN Excluded(st, o, st.rng, <<o.energy, fed.energy>>, "metabolism")
         ELSE
           LET mv == move_organism(fed, st.rng)
               seen == <<o.energy, fed.energy, mv.org.energy>>
           IN IF IsDead(mv.org)
              THEN Excluded(st, o, mv.rng, seen, "movement")
              ELSE ReproductionStep(st, process_photosynthesis(mv.org, light_level),
                                    mv.rng, seen)

RECURSIVE GenerationLoop(_, _, _, _)
GenerationLoop(i, orgs, st, light_level) ==
    IF i > Len(orgs) THEN st
    ELSE GenerationLoop(i + 1, orgs, ProcessOrganism(st, orgs[i], light_level),
                        light_level)

\* Simulation::simulate_generation on the simulation sim =
\* [organisms, rng, next_id, created, pass_log, passes]
simulate_generation(sim, light_level) ==
    LET done == GenerationLoop(1, sim.organisms,
                               [next_organisms |-> << >>, rng |-> sim.rng,
                                next_id |-> sim.next_id, created |-> sim.created,
                                pass_log |-> << >>, pass |-> sim.passes + 1],
                               light_level)
    IN [organisms |-> done.next_organisms, rng |-> done.rng,
        next_id |-> done.next_id, created |-> done.created,
        pass_log |-> done.pass_log, passes |-> sim.passes + 1]

\* a loop over 0..=generations: one pass too many
RECURSIVE FastForwardLoopInclusive(_, _, _, _)
FastForwardLoopInclusive(i, generations, sim, light_level) ==
    IF i > generations THEN sim
    ELSE FastForwardLoopInclusive(i + 1, generations,
                                  simulate_generation(sim, light_level), light_level)

\* Simulation::fast_forward: for _ in 0..generations
RECURSIVE FastForwardLoop(_, _, _, _)
FastForwardLoop(i, generations, sim, light_level) ==
    IF i >= generations THEN sim
    ELSE FastForwardLoop(i + 1, generations,
                         simulate_generation(sim, light_level), light_level)

fast_forward(sim, generations, light_level) ==
    FastForwardLoop(0, generations, sim, light_level)

\* the simulation as one value
Sim == [organisms |-> organisms, rng |-> rng, next_id |-> next_id,
        created |-> created, pass_log |-> pass_log, passes |-> passes]

(***************************************************************************)
(* Inputs the host supplies.                                               *)
(***************************************************************************)
\* Simulation::new(env_temperature, env_light, env_moisture)
EnvInputs == {<<500, 0, 500>>, <<-200, 1500, 1200>>}

\* Math.random(), in [0,1)
HostRandoms == {0, 250, 500, 999}

\* create_initial_organism(motility, photosynthesis, size)
CreateInputs == {
    \* motility below 0; size 50: 25 of metabolism a pass
    <<-500, 500, 50000>>,
    \* motility above 1, photosynthesis below 0; a size whose metabolism
    \* leaves exactly what the first move costs
    <<1500, -200, 197628>>,
    \* photosynthesis above 1, size below the floor of 0.1
    <<400, 1500, 50>> }

\* record_action(action)
ActionLabels == <<"moved", "photosynthesis", "reproduced">>

\* the Organism the host builds with `new Organism(...)`
HostOrganism ==
    OrganismNew("host", PositionNew(0, 0, 0), 1000,
                TraitsNew(500, 500, 100, 100, 100, 500, 500), 100000, 0, None)

SimVars == <<organisms, environment, rng, next_id, seed, returned, last_call, before,
             created, pass_log, passes>>

(***************************************************************************)
(* Simulation: the host's calls.                                           *)
(***************************************************************************)
\* Simulation::new
Init ==
    /\ \E env \in EnvInputs :
          environment = EnvironmentNew(env[1], env[2], env[3],
                                       100000, 100000, 100000)
    /\ organisms = << >>
    /\ \E random \in HostRandoms : seed = SeedFromHost(random)
    /\ rng \in RngStates
    /\ next_id = 0
    /\ returned = << >>
    /\ last_call = [op |-> "new", arg |-> 0]
    /\ before = << >>
    /\ created = << >>
    /\ pass_log = << >>
    /\ passes = 0
    /\ org = HostOrganism
    /\ recorded = << >>

\* Simulation::create_initial_organism
CreateInitialOrganism(motility, photosynthesis, size) ==
    /\ Cardinality({i \in 1 .. Len(created) : created[i].kind = "initial"})
          < MaxInitial
    /\ LET traits == TraitsNew(motility, photosynthesis, 100, 100, 100, 500, 500)
           id == FormatId(next_id)
           organism == OrganismNew(id, PositionNew(0, 0, 0), size, traits,
                                   100000, 0, None)
       IN /\ next_id' = NextIdAfter(next_id)
          /\ organisms' = Append(organisms, organism)
          /\ returned' = Snapshot(organism)
          /\ created' = Append(created, [id |-> id, kind |-> "initial",
                                         generation |-> organism.generation,
                                         parent_id |-> organism.parent_id,
                                         spawner |-> "", spawner_generation |-> 0,
                                         input |-> <<motility, photosynthesis, size>>,
                                         counter |-> next_id,
                                         born |-> passes])
    /\ last_call' = [op |-> "create_initial_organism", arg |-> 0]
    /\ before' = Sim
    /\ UNCHANGED <<environment, rng, seed, pass_log, passes, org, recorded>>

\* the simulation's variables take the values of sim
Becomes(sim) ==
    /\ organisms' = sim.organisms
    /\ rng' = sim.rng
    /\ next_id' = sim.next_id
    /\ created' = sim.created
    /\ pass_log' = sim.pass_log
    /\ passes' = sim.passes
    /\ returned' = SnapshotAll(sim.organisms)

\* Simulation::simulate_generation
SimulateGeneration ==
    /\ passes < MaxPasses
    /\ Becomes(simulate_generation(Sim, environment.light_level))
    /\ last_call' = [op |-> "simulate_generation", arg |-> 0]
    /\ before' = Sim
    /\ UNCHANGED <<environment, seed, org, recorded>>

\* Simulation::fast_forward
FastForward(generations) ==
    /\ passes + generations <= MaxPasses
    /\ Becomes(fast_forward(Sim, generations, environment.light_level))
    /\ last_call' = [op |-> "fast_forward", arg |-> generations]
    /\ before' = Sim
    /\ UNCHANGED <<environment, seed, org, recorded>>

Next ==
    \/ \E in \in CreateInputs : CreateInitialOrganism(in[1], in[2], in[3])
    \/ SimulateGeneration
    \/ \E generations \in 0 .. MaxFF : FastForward(generations)

Spec == Init /\ [][Next]_vars

(***************************************************************************)
(* The stand-alone Organism: the host's record_action calls.               *)
(***************************************************************************)
Rare(labels) == Cardinality({i \in 1 .. Len(labels) : labels[i] # ActionLabels[1]})

InitOrganism ==
    /\ environment = EnvironmentNew(500, 500, 500, 100000, 100000, 100000)
    /\ organisms = << >>
    /\ seed = SeedFromHost(0)
    /\ rng = 0
    /\ next_id = 0
    /\ returned = << >>
    /\ last_call = [op |-> "new", arg |-> 0]
    /\ before = << >>
    /\ created = << >>
    /\ pass_log = << >>
    /\ passes = 0
    /\ org = HostOrganism
    /\ recorded = << >>

\* Organism::record_action, called by the host
RecordAction(action) ==
    /\ Len(recorded) < MaxCalls
    /\ Rare(Append(recorded, action)) <= MaxRare
    /\ org' = record_action(org, action)
    /\ recorded' = Append(recorded, action)
    /\ UNCHANGED SimVars

NextOrganism ==
    \E i \in 1 .. Len(ActionLabels) : RecordAction(ActionLabels[i])

SpecOrganism == InitOrganism /\ [][NextOrganism]_vars

(***************************************************************************)
(* The stand-alone Organism: the host's move_organism and                  *)
(* process_photosynthesis calls, on an organism and a generator of its     *)
(* own.                                                                    *)
(***************************************************************************)
\* motility and photosynthesis handed to OrganismTraits::new: below 0, just
\* below the threshold of 0.05, exactly the threshold, above 1
MethodGenes == {-500, 49, 50, 1500}

\* size handed to Organism::new: below the floor of 0.1, and 2
MethodSizes == {50, 2000}

\* light_level handed to process_photosynthesis
MethodLights == {-500, 0, 1000}

\* the organism and the generator as a call finds them
Held == [org |-> org, rng |-> rng]

InitMethods ==
    /\ environment = EnvironmentNew(500, 500, 500, 100000, 100000, 100000)
    /\ organisms = << >>
    /\ seed = SeedFromHost(0)
    /\ rng \in RngStates
    /\ next_id = 0
    /\ returned = << >>
    /\ last_call = [op |-> "new", arg |-> 0]
    /\ before = << >>
    /\ created = << >>
    /\ pass_log = << >>
    /\ passes = 0
    /\ \E motility \in MethodGenes, photosynthesis \in MethodGenes, size \in MethodSizes :
          org = OrganismNew("host", PositionNew(0, 0, 0), size,
                            TraitsNew(motility, photosynthesis, 100, 100, 100, 500, 500),
                            100000, 0, None)
    /\ recorded = << >>

\* Organism::move_organism, called by the host
MoveOrganism ==
    /\ Len(recorded) < MaxMethodCalls
    /\ LET mv == move_organism(org, rng)
       IN /\ org' = mv.org
          /\ rng' = mv.rng
    /\ last_call' = [op |-> "move_organism", arg |-> 0]
    /\ before' = Held
    /\ recorded' = Append(recorded, "move_organism")
    /\ UNCHANGED <<organisms, environment, next_id, seed, returned, created,
                   pass_log, passes>>

\* Organism::process_photosynthesis, called by the host
ProcessPhotosynthesis(light_level) ==
    /\ Len(recorded) < MaxMethodCalls
    /\ org' = process_photosynthesis(org, light_level)
    /\ last_call' = [op |-> "process_photosynthesis", arg |-> light_level]
    /\ before' = Held
    /\ recorded' = Append(recorded, "process_photosynthesis")
    /\ UNCHANGED <<organisms, environment, rng, next_id, seed, returned, created,
                   pass_log, passes>>

NextMethods ==
    \/ MoveOrganism
    \/ \E light_level \in MethodLights : ProcessPhotosynthesis(light_level)

SpecMethods == InitMethods /\ [][NextMethods]_vars

(***************************************************************************)
(* Properties.                                                             *)
(***************************************************************************)
Ids(orgs) == {orgs[i].id : i \in DOMAIN orgs}

\* the population the last call returned, when it returned one
ReturnedIds ==
    IF last_call.op \in {"simulate_generation", "fast_forward"}
    THEN Ids(returned) ELSE {}

SeenDead(entry) == \E j \in DOMAIN entry.seen : entry.seen[j] <= 0

\* C1: an organism whose energy a checkpoint of the last pass read as <= 0
\* (at pass start, after metabolism, after move_organism) is neither in the
\* stored population nor in the population the call returned.
C1_DeadExcluded ==
    \A k \in DOMAIN pass_log :
        SeenDead(pass_log[k]) =>
            /\ pass_log[k].id \notin Ids(organisms)
            /\ pass_log[k].id \notin ReturnedIds

\* C1 witness: the last pass read an energy <= 0 after move_organism, and
\* another one after metabolism
C1_Witness ==
    /\ last_call.op = "simulate_generation"
    /\ \E k \in DOMAIN pass_log :
          /\ Len(pass_log[k].seen) = 3
          /\ pass_log[k].seen[3] <= 0
    /\ \E k \in DOMAIN pass_log :
          /\ Len(pass_log[k].seen) = 2
          /\ pass_log[k].seen[2] <= 0

Min(a, b) == IF a <= b THEN a ELSE b

\* the last Min(n, HistoryCap) labels recorded
Window ==
    LET n == Len(recorded)
    IN SubSeq(recorded, n - Min(n, HistoryCap) + 1, n)

Occurrences(labels, a) == Cardinality({i \in DOMAIN labels : labels[i] = a})

\* C2: after any sequence of record_action calls the history is the last
\* min(n, 20) labels in recording order, and action_weights has exactly the
\* labels of that window, each mapped to its number of occurrences in it.
C2_WeightsMatchWindow ==
    /\ org.action_records = Window
    /\ DOMAIN org.action_weights = {Window[i] : i \in DOMAIN Window}
    /\ \A a \in DOMAIN org.action_weights :
          org.action_weights[a] = Occurrences(Window, a)

\* C2 witness: more than 20 calls, a label recorded earlier has left the
\* window and the mapping, another one was evicted but is still counted
C2_Witness ==
    /\ Len(recorded) > HistoryCap
    /\ \E i \in DOMAIN recorded : recorded[i] \notin DOMAIN org.action_weights
    /\ \E a \in DOMAIN org.action_weights :
          /\ recorded[1] = a
          /\ org.action_weights[a] < Occurrences(recorded, a)
    /\ Cardinality(DOMAIN org.action_weights) >= 2

\* C3: the k-th id ever allocated is "organism-<k-1>", read off a counter
\* that stood at k-1 and stands at k afterwards; no two allocated ids are
\* equal, whether their organisms are alive or not; the organisms of the
\* population carry pairwise different ids, all of them allocated ones; no
\* call lowers the counter, and each call advances it by the number of ids
\* it allocated.
C3_UniqueIds ==
    /\ next_id = Len(created)
    /\ \A k \in DOMAIN created :
          /\ created[k].counter = k - 1
          /\ created[k].id = "organism-" \o ToString(k - 1)
    /\ \A j, k \in DOMAIN created : j # k => created[j].id # created[k].id
    /\ \A i, j \in DOMAIN organisms :
          i # j => organisms[i].id # organisms[j].id
    /\ \A i \in DOMAIN organisms :
          \E k \in DOMAIN created : created[k].id = organisms[i].id
    /\ before # << >> =>
          /\ next_id >= before.next_id
          /\ next_id - before.next_id = Len(created) - Len(before.created)
          /\ SubSeq(created, 1, Len(before.created)) = before.created

\* C3 witness: initial organisms and offspring were created in turn, and one
\* of the organisms created has died
C3_Witness ==
    /\ Len(created) >= 4
    /\ \E j, k \in DOMAIN created :
          /\ j < k
          /\ created[j].kind = "offspring"
          /\ created[k].kind = "initial"
    /\ \E k \in DOMAIN created : created[k].id \notin Ids(organisms)

\* n calls of simulate_generation, one after the other
RECURSIVE SequentialCalls(_, _, _)
SequentialCalls(n, sim, light_level) ==
    IF n = 0 THEN sim
    ELSE simulate_generation(SequentialCalls(n - 1, sim, light_level), light_level)

\* C4: fast_forward(n) leaves the simulation where n sequential
\* simulate_generation calls from the same state leave it and returns the
\* population the last of them returns; fast_forward(0) changes nothing and
\* returns the current population.
C4_FastForwardIsSequential ==
    last_call.op = "fast_forward" =>
        LET n == last_call.arg
            seq == SequentialCalls(n, before, environment.light_level)
        IN /\ Sim = seq
           /\ returned = SnapshotAll(seq.organisms)
           /\ n = 0 => /\ Sim = before
                       /\ returned = SnapshotAll(before.organisms)

\* C4 witness: fast_forward(2) has run on a population in which an organism
\* reproduced in the last pass, after the id counter had moved
C4_Witness ==
    /\ last_call = [op |-> "fast_forward", arg |-> 2]
    /\ passes >= 2
    /\ \E k \in DOMAIN pass_log : pass_log[k].offspring # None
    /\ next_id >= 3

AllOrganismsGenesInRange ==
    \A i \in DOMAIN organisms :
        \A g \in DOMAIN GeneNames :
            /\ organisms[i].traits[GeneNames[g]] >= 0
            /\ organisms[i].traits[GeneNames[g]] <= Scale

\* the bound of [0,1] nearest to x, or x itself when it lies inside
Saturated(x) == IF x < 0 THEN 0 ELSE IF x > Scale THEN Scale ELSE x

\* C5: every gene of every organism of the population lies in [0,1]; the
\* motility and photosynthesis genes of an initial organism are the inputs
\* saturated to the nearest bound.
C5_GenesInRange ==
    /\ AllOrganismsGenesInRange
    /\ \A i \in DOMAIN organisms :
          \A k \in DOMAIN created :
              (created[k].id = organisms[i].id /\ created[k].kind = "initial") =>
                  /\ organisms[i].traits.motility = Saturated(created[k].input[1])
                  /\ organisms[i].traits.photosynthesis =
                         Saturated(created[k].input[2])

\* C5 witness: the population holds an initial organism made from inputs
\* beyond both bounds and an offspring one of whose mutated genes sits on
\* a bound
C5_Witness ==
    /\ \E i \in DOMAIN organisms :
          \E k \in DOMAIN created :
              /\ created[k].id = organisms[i].id
              /\ created[k].kind = "initial"
              /\ created[k].input[1] > Scale
              /\ created[k].input[2] < 0
    /\ \E i \in DOMAIN organisms :
          /\ organisms[i].parent_id # None
          /\ \E g \in DOMAIN GeneNames :
                organisms[i].traits[GeneNames[g]] \in {0, Scale}

OrganismWithId(id) == CHOOSE o \in {organisms[i] : i \in DOMAIN organisms} : o.id = id

Abs(x) == IF x < 0 THEN -x ELSE x

\* C7: when an organism reproduced in the last pass with energy E at the
\* reproduction check, the offspring and the parent are both in the
\* population, the offspring with 0.3 * E and the parent with 0.7 * E (each
\* rounded to the nearest thousandth), so that the two sum to E within one
\* thousandth; E = 200 gives 60 and 140.
C7_EnergySplit ==
    \A k \in DOMAIN pass_log :
        pass_log[k].offspring # None =>
            LET E == pass_log[k].check_energy
                child_id == pass_log[k].offspring[1]
            IN /\ child_id \in Ids(organisms)
               /\ pass_log[k].id \in Ids(organisms)
               /\ OrganismWithId(child_id).energy = RDiv(3 * E, 10)
               /\ OrganismWithId(pass_log[k].id).energy = RDiv(7 * E, 10)
               /\ Abs(OrganismWithId(child_id).energy
                      + OrganismWithId(pass_log[k].id).energy - E) <= 1
               /\ E % 10 = 0 =>
                      OrganismWithId(child_id).energy
                      + OrganismWithId(pass_log[k].id).energy = E
               /\ E = 200000 =>
                      /\ OrganismWithId(child_id).energy = 60000
                      /\ OrganismWithId(pass_log[k].id).energy = 140000

\* C7 witness: an organism reproduced in the last pass with energy 200 at
\* the check (100 - 25 of metabolism + 125 of photosynthesis); its offspring
\* has 60 and it has 140
C7_Witness ==
    \E k \in DOMAIN pass_log :
        /\ pass_log[k].offspring # None
        /\ pass_log[k].check_energy = 200000
        /\ \E i, j \in DOMAIN organisms :
              /\ organisms[i].id = pass_log[k].offspring[1]
              /\ organisms[i].energy = 60000
              /\ organisms[j].id = pass_log[k].id
              /\ organisms[j].energy = 140000

\* the record made when this id was allocated
CreatedWithId(id) == CHOOSE c \in {created[k] : k \in DOMAIN created} : c.id = id

\* C8: every organism of the population still has the generation and the
\* parent_id it was created with; an initial organism has generation 0 and
\* no parent_id; an offspring has the id of the organism that spawned it as
\* parent_id and that organism's generation plus 1 as generation.
C8_Lineage ==
    \A i \in DOMAIN organisms :
        LET o == organisms[i]
            c == CreatedWithId(o.id)
        IN /\ o.generation = c.generation
           /\ o.parent_id = c.parent_id
           /\ c.kind = "initial" => (o.generation = 0 /\ o.parent_id = None)
           /\ c.kind = "offspring" =>
                 /\ o.parent_id = Some(c.spawner)
                 /\ o.generation = c.spawner_generation + 1
                 /\ CreatedWithId(c.spawner).generation = c.spawner_generation

\* C8 witness: the population holds an initial organism, an offspring of it
\* and an offspring of an offspring, and a pass has run since the youngest
\* of them was created
C8_Witness ==
    /\ \E i, j, k \in DOMAIN organisms :
          /\ organisms[i].parent_id = None
          /\ organisms[j].parent_id = Some(organisms[i].id)
          /\ organisms[k].parent_id = Some(organisms[j].id)
          /\ organisms[k].generation = 2
          /\ organisms[k].age >= 1

\* C9: create_initial_organism appends one organism, leaves the others as
\* they were, and returns the snapshot of the new one, with the id made
\* from the counter, position (0,0,0), energy 100, age 0, generation 0, no
\* parent_id, the fixed genes and the two given genes saturated to [0,1];
\* the first call on a fresh Simulation yields "organism-0".
C9_CreateInitial ==
    last_call.op = "create_initial_organism" =>
        LET in == created[Len(created)].input
        IN /\ Len(organisms) = Len(before.organisms) + 1
           /\ SubSeq(organisms, 1, Len(before.organisms)) = before.organisms
           /\ returned = Snapshot(organisms[Len(organisms)])
           /\ DOMAIN returned = {"id", "position", "size", "traits", "energy",
                                 "age", "generation"}
           /\ organisms[Len(organisms)].parent_id = None
           /\ returned.id = "organism-" \o ToString(before.next_id)
           /\ returned.position = [x |-> 0, y |-> 0, z |-> 0]
           /\ returned.energy = 100000
           /\ returned.age = 0
           /\ returned.generation = 0
           /\ returned.traits =
                  [motility |-> Saturated(in[1]),
                   photosynthesis |-> Saturated(in[2]),
                   predation |-> 100, defense |-> 100, sensory |-> 100,
                   reproduction |-> 500, metabolism |-> 500]
           /\ before.created = << >> => returned.id = "organism-0"

\* C9 witness: create_initial_organism was the last call, made on a
\* simulation that had run a pass and held organisms, offspring among them,
\* with inputs beyond the bounds
C9_Witness ==
    /\ last_call.op = "create_initial_organism"
    /\ passes >= 1
    /\ Len(organisms) >= 3
    /\ \E i \in DOMAIN organisms : organisms[i].parent_id # None
    /\ returned.traits.motility = Scale
    /\ returned.id # "organism-0"

\* C10: the seed given to the generator depends on the host's random
\* value: some other value of Math.random() would have given another seed.
C10_SeedDependsOnHost ==
    \E random \in HostRandoms : SeedFromHost(random) # seed

\* C11: move_organism on an organism whose motility is below 0.05 changes
\* nothing: position, energy, action history and action weights are what
\* they were, and the generator has not been drawn from.
C11_MoveBelowThreshold ==
    (last_call.op = "move_organism" /\ before.org.traits.motility < 50) =>
        /\ org.position = before.org.position
        /\ org.energy = before.org.energy
        /\ org.action_records = before.org.action_records
        /\ org.action_weights = before.org.action_weights
        /\ rng = before.rng

\* move_organism has run on a motility just below the threshold, on an
\* organism that already has a history
C11_Witness ==
    /\ last_call.op = "move_organism"
    /\ before.org.traits.motility = 49
    /\ before.org.action_records # << >>

\* C12: process_photosynthesis on an organism whose photosynthesis is below
\* 0.05 changes neither energy nor history nor weights, whatever the
\* light_level; otherwise the energy grows by photosynthesis * light_level *
\* size * 5 and the label "photosynthesis" is recorded.
C12_Photosynthesis ==
    last_call.op = "process_photosynthesis" =>
        LET o == before.org
            light_level == last_call.arg
            energy_gain ==
                FMul(FMul(FMul(o.traits.photosynthesis, light_level), o.size), 5000)
            n == Len(org.action_records)
        IN IF o.traits.photosynthesis < 50
           THEN /\ org.energy = o.energy
                /\ org.action_records = o.action_records
                /\ org.action_weights = o.action_weights
           ELSE /\ org.energy = o.energy + energy_gain
                /\ n = Min(Len(o.action_records) + 1, HistoryCap)
                /\ org.action_records[n] = "photosynthesis"
                /\ "photosynthesis" \in DOMAIN org.action_weights
                /\ (o.traits.photosynthesis = Scale /\ light_level = Scale
                        /\ o.size = 2000)
                      => energy_gain = 10000

\* process_photosynthesis has run under full light on a gene of exactly the
\* threshold, after a move, and the energy has grown
C12_Witness ==
    /\ last_call.op = "process_photosynthesis"
    /\ last_call.arg = Scale
    /\ before.org.traits.photosynthesis = 50
    /\ before.org.action_records = <<"moved">>
    /\ org.energy > before.org.energy

Labels(records) == {records[i] : i \in DOMAIN records}

\* C13: when the history of an organism that reproduced in the last pass
\* holds the label move_organism records, the normalized map handed to
\* mutate has a non-zero entry under the name mutate looks up for the
\* motility gene, so that the gene is biased upwards; likewise for the label
\* process_photosynthesis records and the photosynthesis gene.
C13_MoversBiasMotility ==
    \A k \in DOMAIN pass_log :
        pass_log[k].offspring # None =>
            /\ "moved" \in Labels(pass_log[k].history)
                  => GetOr0(pass_log[k].action_weights, "motility") > 0
            /\ "photosynthesis" \in Labels(pass_log[k].history)
                  => GetOr0(pass_log[k].action_weights, "photosynthesis") > 0

\* the product the reproduction body hands to Organism::new as size
OffspringSizeArgument(entry) == FMul(OrganismWithId(entry.id).size, entry.size_factor)

\* C14 as stated: the size of an offspring of the last pass is exactly its
\* parent's size times the drawn factor, the floor of 0.1 not being applied
\* again.
C14_OffspringSizeUnfloored ==
    \A k \in DOMAIN pass_log :
        pass_log[k].offspring # None =>
            OrganismWithId(pass_log[k].offspring[1]).size
                = OffspringSizeArgument(pass_log[k])

\* C14: the size of an offspring of the last pass is its parent's size times
\* a factor in [0.8, 1.2), floored at 0.1 by the constructor every organism
\* is built with; no organism of the population is smaller than 0.1, and the
\* offspring of a parent of size 0.1 with factor 0.8 has size 0.1.
C14_OffspringSizeFloored ==
    /\ \A i \in DOMAIN organisms : organisms[i].size >= 100
    /\ \A k \in DOMAIN pass_log :
          pass_log[k].offspring # None =>
              LET size == OffspringSizeArgument(pass_log[k])
                  offspring == OrganismWithId(pass_log[k].offspring[1])
              IN /\ pass_log[k].size_factor >= 800
                 /\ pass_log[k].size_factor < 1200
                 /\ offspring.size = IF size >= 100 THEN size ELSE 100
                 /\ (OrganismWithId(pass_log[k].id).size = 100
                        /\ pass_log[k].size_factor = 800) => offspring.size = 100

\* a parent of size 0.1 has had an offspring with the factor 0.8: the
\* product is 0.08 and the offspring has size 0.1
C14_Witness ==
    \E k \in DOMAIN pass_log :
        /\ pass_log[k].offspring # None
        /\ OrganismWithId(pass_log[k].id).size = 100
        /\ pass_log[k].size_factor = 800
        /\ OffspringSizeArgument(pass_log[k]) = 80
        /\ OrganismWithId(pass_log[k].offspring[1]).size = 100

IdsInOrder(orgs) == [i \in 1 .. Len(orgs) |-> orgs[i].id]

\* what the organisms of a pass leave in the next population, in the order
\* the pass took them: nothing for one a checkpoint read as dead, the
\* offspring then the organism for one that reproduced, else the organism
RECURSIVE OrderFromPass(_, _)
OrderFromPass(log, k) ==
    IF k > Len(log) THEN << >>
    ELSE (IF SeenDead(log[k]) THEN << >>
          ELSE IF log[k].offspring # None THEN <<log[k].offspring[1], log[k].id>>
          ELSE <<log[k].id>>) \o OrderFromPass(log, k + 1)

LastCallPassed ==
    \/ last_call.op = "simulate_generation"
    \/ last_call.op = "fast_forward" /\ last_call.arg >= 1

\* C15: the population a pass leaves (and returns) lists, for each organism
\* of the previous population in its order, the offspring (if it had one)
\* immediately followed by the organism (if it survived), and nothing for a
\* dead one; an offspring, whose id counter is larger, stands before its
\* parent.
C15_PopulationOrder ==
    /\ last_call.op = "simulate_generation"
          => IdsInOrder(pass_log) = IdsInOrder(before.organisms)
    /\ LastCallPassed =>
          /\ IdsInOrder(organisms) = OrderFromPass(pass_log, 1)
          /\ IdsInOrder(returned) = OrderFromPass(pass_log, 1)
          /\ \A i \in DOMAIN organisms :
                (organisms[i].age = 0 /\ organisms[i].parent_id # None) =>
                    /\ i < Len(organisms)
                    /\ organisms[i].parent_id = Some(organisms[i + 1].id)
                    /\ CreatedWithId(organisms[i].id).counter
                          > CreatedWithId(organisms[i + 1].id).counter

\* one pass over three organisms or more has seen one die, one reproduce and
\* one survive without offspring, and the result begins with an offspring
C15_Witness ==
    /\ last_call.op = "simulate_generation"
    /\ Len(before.organisms) >= 3
    /\ \E k \in DOMAIN pass_log : SeenDead(pass_log[k])
    /\ \E k \in DOMAIN pass_log : pass_log[k].offspring # None
    /\ \E k \in DOMAIN pass_log :
          ~SeenDead(pass_log[k]) /\ pass_log[k].offspring = None
    /\ organisms[1].parent_id # None
    /\ organisms[1].age = 0

\* reproduction * (energy / 200) of the organism of an entry of the pass
\* log, at the reproduction check
ChanceAtCheck(entry) ==
    FMul(OrganismWithId(entry.id).traits.reproduction, RDiv(entry.check_energy, 200))

\* the offspring the last pass created for the organism id
OffspringOfLastPass(id) ==
    {k \in DOMAIN created : created[k].spawner = id /\ created[k].born = passes
                               /\ created[k].kind = "offspring"}

\* C16: an organism that reached the reproduction check of the last pass
\* with can_reproduce() true and reproduction * (energy / 200) >= 1 has
\* reproduced, whatever was drawn, and has exactly one offspring of that
\* pass.
C16_CertainReproduction ==
    \A k \in DOMAIN pass_log :
        (pass_log[k].died = "no" /\ pass_log[k].could
              /\ ChanceAtCheck(pass_log[k]) >= Scale) =>
            /\ pass_log[k].draw # None
            /\ pass_log[k].offspring # None
            /\ passes > 0 => Cardinality(OffspringOfLastPass(pass_log[k].id)) = 1

\* an organism with energy 400 and reproduction 0.5 (a chance of 1) has
\* reproduced on a draw of 0.75
C16_Witness ==
    \E k \in DOMAIN pass_log :
        /\ pass_log[k].could
        /\ pass_log[k].check_energy = 400000
        /\ OrganismWithId(pass_log[k].id).traits.reproduction = 500
        /\ ChanceAtCheck(pass_log[k]) >= Scale
        /\ pass_log[k].draw = Some(750)
        /\ pass_log[k].offspring # None

\* C17: every organism of the stored population has an energy above 0, so
\* the check at the start of the loop body never reads an energy of 0 or
\* less: no organism of the last pass was skipped there.
C17_StoredEnergyPositive ==
    /\ \A i \in DOMAIN organisms : organisms[i].energy > 0
    /\ \A k \in DOMAIN pass_log :
          /\ pass_log[k].seen[1] > 0
          /\ pass_log[k].died # "start"

\* the later checks have fired: in the last of several passes one organism
\* died of metabolism or movement, another reproduced, and the population
\* holds the parent and the offspring
C17_Witness ==
    /\ passes >= 2
    /\ \E k \in DOMAIN pass_log :
          pass_log[k].died \in {"metabolism", "movement"}
    /\ \E k \in DOMAIN pass_log : pass_log[k].offspring # None
    /\ Len(organisms) >= 2

\* the organisms of the last pass that no checkpoint read as dead
SurvivorsOfLastPass == {k \in DOMAIN pass_log : ~SeenDead(pass_log[k])}

\* C18: a simulate_generation call takes each organism of the population it
\* found exactly once and no offspring of its own; each organism has at most
\* one offspring of that pass, so the new population is at most twice the
\* old one, and next_id has advanced by the number of offspring created,
\* which is the new size minus the number of survivors.
C18_AtMostDoubles ==
    last_call.op = "simulate_generation" =>
        /\ IdsInOrder(pass_log) = IdsInOrder(before.organisms)
        /\ \A i \in DOMAIN before.organisms :
              Cardinality(OffspringOfLastPass(before.organisms[i].id)) <= 1
        /\ \A k \in DOMAIN created :
              created[k].born = passes /\ created[k].kind = "offspring"
                  => created[k].id \notin Ids(before.organisms)
                     /\ OrganismWithId(created[k].id).age = 0
        /\ Len(organisms) <= 2 * Len(before.organisms)
        /\ next_id - before.next_id = Len(organisms) - Cardinality(SurvivorsOfLastPass)
        /\ next_id - before.next_id = Len(created) - Len(before.created)

\* a pass over two organisms or more in which every one reproduced: the
\* population has doubled and next_id has advanced by its old size
C18_Witness ==
    /\ last_call.op = "simulate_generation"
    /\ Len(before.organisms) >= 2
    /\ Len(organisms) = 2 * Len(before.organisms)
    /\ next_id = before.next_id + Len(before.organisms)

\* C19: after k passes every organism of the population has a generation
\* and an age of at most k; its age is the number of passes completed since
\* the call or the pass that created it; an offspring of the last pass has
\* age 0, an empty action history and no action weights.
C19_AgeAndGeneration ==
    /\ \A i \in DOMAIN organisms :
          /\ organisms[i].generation <= passes
          /\ organisms[i].age <= passes
          /\ organisms[i].age = passes - CreatedWithId(organisms[i].id).born
    /\ \A k \in DOMAIN pass_log :
          pass_log[k].offspring # None =>
              LET offspring == OrganismWithId(pass_log[k].offspring[1])
              IN /\ offspring.age = 0
                 /\ offspring.action_records = << >>
                 /\ DOMAIN offspring.action_weights = {}

\* after three passes the population holds an organism of age 3, one of
\* generation 3 just created, and the parent that recorded its reproduction
C19_Witness ==
    /\ passes = 3
    /\ \E i \in DOMAIN organisms : organisms[i].age = 3
    /\ \E i \in DOMAIN organisms :
          organisms[i].generation = 3 /\ organisms[i].age = 0
    /\ \E k \in DOMAIN pass_log :
          /\ pass_log[k].offspring # None
          /\ OrganismWithId(pass_log[k].id).action_records # << >>

RECURSIVE TotalEnergy(_)
TotalEnergy(orgs) ==
    IF orgs = << >> THEN 0 ELSE Head(orgs).energy + TotalEnergy(Tail(orgs))

\* C20: with a light_level of 0 the energies of the population a
\* simulate_generation (or fast_forward) call leaves sum to no more than
\* those of the population it found: nothing but photosynthesis adds
\* energy, and reproduction only splits it.
C20_NoLightNoGain ==
    (environment.light_level = 0
          /\ last_call.op \in {"simulate_generation", "fast_forward"}) =>
        TotalEnergy(organisms) <= TotalEnergy(before.organisms)

\* a pass in the dark in which a photosynthetic organism reproduced and
\* another organism died: the total has gone down
C20_Witness ==
    /\ environment.light_level = 0
    /\ last_call.op = "simulate_generation"
    /\ \E k \in DOMAIN pass_log :
          /\ pass_log[k].offspring # None
          /\ "photosynthesis" \in Labels(pass_log[k].history)
    /\ \E k \in DOMAIN pass_log : SeenDead(pass_log[k])
    /\ TotalEnergy(organisms) < TotalEnergy(before.organisms)

=============================================================================
